---- MODULE Spec2Model ----
(***************************************************************************)
(* Model of fetch_all_data.py, the Runalyze full data fetcher: one         *)
(* sequential run of main().  The remote service, the process environment  *)
(* and the .env file are the inputs; every HTTP response is chosen by the  *)
(* server.                                                                 *)
(***************************************************************************)
EXTENDS Integers, Sequences, FiniteSets, TLC

\* ------------------------------------------------------------------------
\* Bounds of the model
\* ------------------------------------------------------------------------
\* Total number of records the account holds over all datasets of one run.
MaxRecords == 3
\* Number of lines of the .env file.
MaxEnvLines == 2

\* ------------------------------------------------------------------------
\* Configuration (lines 44-51)
\* ------------------------------------------------------------------------
MAX_RETRIES == 3
RETRY_WAIT == 60
TIMEOUT_WAIT == 5

\* Python's None; an unset environment variable reads as None.
None == "<None>"
\* Truth value of an Optional[str]: None and "" are falsy.
Truthy(v) == v # None /\ v # ""

Keys == {"RUNALYZE_USERNAME", "RUNALYZE_PASSWORD", "RUNALYZE_TOKEN"}
Values == {"", "secret"}
\* The records the service can hold (opaque mappings).
Records == {"r1", "r2"}

Datasets == {"activities", "hrv", "sleep", "resting_hr"}
JsonFile(d) == CASE d = "activities" -> "activities.json"
                 [] d = "hrv" -> "hrv.json"
                 [] d = "sleep" -> "sleep.json"
                 [] d = "resting_hr" -> "resting_hr.json"

\* Sequences over S of length at most n.
RECURSIVE SeqsUpTo(_, _)
SeqsUpTo(S, n) ==
    IF n <= 0 THEN {<<>>}
    ELSE LET shorter == SeqsUpTo(S, n - 1)
         IN  shorter \cup {Append(s, x) : s \in {t \in shorter : Len(t) = n - 1}, x \in S}

\* Sum of the values of a function with a finite domain.
RECURSIVE SumOf(_)
SumOf(f) ==
    IF DOMAIN f = {} THEN 0
    ELSE LET k == CHOOSE x \in DOMAIN f : TRUE
         IN  f[k] + SumOf([y \in DOMAIN f \ {k} |-> f[y]])

\* The empty dict {}.
EmptyDict == [k \in {} |-> 0]
\* d[k] = v on a dict d.
DictSet(d, k, v) == [x \in DOMAIN d \cup {k} |-> IF x = k THEN v ELSE d[x]]

VARIABLES
    pc,          \* position of main()
    exit_code,   \* -1 while running, else the process exit status
    environ,     \* os.environ restricted to Keys
    env_lines,   \* load_env: the lines of .env still to be processed
    username, password, api_token,   \* locals of main()
    csrf_input, csrf_token, login_url,  \* locals of fetch_activities_csv
    activities,  \* local of main(): the parsed CSV rows
    stats,       \* local of main(): dataset -> count
    endpoints,   \* endpoints contacted so far, in order of first request
    written,     \* names of the files written so far, in order
    files,       \* content of the data files written in this run
    metadata,    \* the "counts" object of metadata.json once written
    ping_status, \* what the connectivity test printed
    fetch_pc, page, all_items,  \* fetch_paginated: position and locals
    pauses,      \* RATE_LIMIT_DELAY sleeps of the current fetch_paginated call
    served,      \* successful responses of the current fetch_paginated call
    api_pc, attempt, api_ret,  \* api_get: position, loop index, return value
    calllog,     \* requests of the current api_get call
    sleeps       \* sleeps of the current api_get call, in seconds

mainVars == <<pc, exit_code, environ, env_lines, username, password, api_token,
              csrf_input, csrf_token, login_url, activities, stats, endpoints,
              written, files, metadata, ping_status>>
fetchVars == <<fetch_pc, page, all_items, pauses, served>>
apiVars == <<api_pc, attempt, api_ret, calllog, sleeps>>
vars == <<mainVars, fetchVars, apiVars>>

\* ------------------------------------------------------------------------
\* Credential loading (lines 57-86)
\* ------------------------------------------------------------------------
\* val.strip('"').strip("'") on the values the .env file can hold.
Unquote(raw) == CASE raw = "\"secret\"" -> "secret"
                  [] raw = "'secret'" -> "secret"
                  [] OTHER -> raw
RawValues == {"", "secret", "\"secret\""}
\* A line of the .env file: a comment, or KEY=VALUE.
EnvLines == {[kind |-> "comment", key |-> "#", raw |-> ""]}
            \cup [kind : {"pair"}, key : Keys, raw : RawValues]

\* A slip: the test `key not in os.environ` is left out.
LoadEnvLine_overwrite(env, line) ==
    IF line.kind = "pair"
    THEN [env EXCEPT ![line.key] = Unquote(line.raw)]
    ELSE env
\* One iteration of the loop of load_env: a key already in os.environ is kept.
LoadEnvLine(env, line) ==
    IF line.kind = "pair" /\ env[line.key] = None
    THEN [env EXCEPT ![line.key] = Unquote(line.raw)]
    ELSE env

RECURSIVE LoadEnvLines(_, _)
LoadEnvLines(env, lines) ==
    IF lines = <<>> THEN env
    ELSE LoadEnvLines(LoadEnvLine(env, Head(lines)), Tail(lines))

\* A slip: `and` for `or`.
CredentialsMissing_and(u, p) == ~Truthy(u) /\ ~Truthy(p)
\* A slip: the check is left out.
CredentialsMissing_never(u, p) == FALSE
\* get_credentials, line 76: `if not username or not password`.
CredentialsMissing(u, p) == ~Truthy(u) \/ ~Truthy(p)

\* ------------------------------------------------------------------------
\* HTTP
\* ------------------------------------------------------------------------
\* response.raise_for_status() raises HTTPError for 4xx and 5xx.
RaisesForStatus(status) == status >= 400 /\ status < 600

\* "/login" in url, on a URL given as the sequence of its parts.
ContainsLogin(url) == \E i \in 1..Len(url) : url[i] = "/login"
\* A slip: url.endswith("/login") instead of the containment test.
LoginFailed_endswith(url) == url[Len(url)] = "/login"
\* fetch_activities_csv, line 124.
LoginFailed(url) == ContainsLogin(url)

LandingUrls == {<<"https://runalyze.com", "/dashboard">>,
                <<"https://runalyze.com", "/login">>,
                <<"https://runalyze.com", "/en", "/login">>,
                <<"https://runalyze.com", "/login", "?error=1">>}
\* What soup.find("input", {"name": "_csrf_token"}) meets on the login page.
LoginForms == {"not_found", "input_without_value", "input_with_value"}
SessionStatuses == {200, 500}

\* The mapping csv.DictReader builds for a row (line 137): the header's field
\* names with the row's strings.
Fields(r) == IF r = "r1" THEN [id |-> "42", name |-> "run"]
             ELSE [id |-> "7", name |-> "ride"]

\* csv.DictReader: the first line is the header, every further line a row.
ParseCsv(doc) == IF doc = <<>> THEN <<>> ELSE Tail(doc)
CsvDocs == {<<>>} \cup {<<"header">> \o rows : rows \in SeqsUpTo(Records, MaxRecords)}

\* What response.json() gives: a list, a dict (with or without the keys
\* "data" and "hydra:member"), another JSON value, or no JSON at all.
MkBody(type, list, has_data, data, has_hydra, hydra) ==
    [type |-> type, list |-> list, has_data |-> has_data, data |-> data,
     has_hydra |-> has_hydra, hydra |-> hydra]
ListBody(items) == MkBody("list", items, FALSE, <<>>, FALSE, <<>>)
\* The [] that api_get returns on a 404 and after the last attempt.
EmptyList == ListBody(<<>>)
NoBody == MkBody("invalid", <<>>, FALSE, <<>>, FALSE, <<>>)

Init ==
    /\ pc = "load_env"
    /\ exit_code = -1
    /\ environ \in [Keys -> Values \cup {None}]
    /\ env_lines \in SeqsUpTo(EnvLines, MaxEnvLines)
    /\ username = None /\ password = None /\ api_token = None
    /\ csrf_input = "unassigned" /\ csrf_token = None /\ login_url = <<>>
    /\ activities = <<>>
    /\ stats = EmptyDict
    /\ endpoints = <<>>
    /\ written = <<>>
    /\ files = EmptyDict
    /\ metadata = EmptyDict
    /\ ping_status = "untested"
    /\ fetch_pc = "idle" /\ page = 0 /\ all_items = <<>> /\ pauses = 0
    /\ served = <<>>
    /\ api_pc = "idle" /\ attempt = 0 /\ api_ret = EmptyList /\ calllog = <<>>
    /\ sleeps = <<>>

\* sys.exit(1).
Exit1 == pc' = "exit" /\ exit_code' = 1
\* An exception nobody catches leaves main(): the interpreter prints the
\* traceback and ends with status 1.
Abort == pc' = "aborted" /\ exit_code' = 1

\* main, line 262.
LoadEnv ==
    /\ pc = "load_env"
    /\ environ' = LoadEnvLines(environ, env_lines)
    /\ env_lines' = <<>>
    /\ pc' = "get_credentials"
    /\ UNCHANGED <<exit_code, username, password, api_token, csrf_input,
                   csrf_token, login_url, activities, stats, endpoints,
                   written, files, metadata, ping_status, fetchVars, apiVars>>

\* main, lines 263-266.
GetCredentials ==
    /\ pc = "get_credentials"
    /\ LET u == environ["RUNALYZE_USERNAME"]
           p == environ["RUNALYZE_PASSWORD"]
       IN  IF CredentialsMissing(u, p)
           THEN /\ Exit1
                /\ UNCHANGED <<username, password, api_token>>
           ELSE /\ username' = u
                /\ password' = p
                /\ api_token' = environ["RUNALYZE_TOKEN"]
                /\ pc' = "login_get"
                /\ UNCHANGED exit_code
    /\ UNCHANGED <<environ, env_lines, csrf_input, csrf_token, login_url,
                   activities, stats, endpoints, written, files, metadata,
                   ping_status, fetchVars, apiVars>>

\* fetch_activities_csv, lines 97-111.
LoginGet ==
    /\ pc = "login_get"
    /\ endpoints' = Append(endpoints, "login_get")
    /\ \E status \in SessionStatuses, form \in LoginForms :
          IF RaisesForStatus(status)
          THEN Abort /\ UNCHANGED <<csrf_input, csrf_token>>
          ELSE /\ csrf_input' = form
               /\ CASE form = "not_found" -> Exit1 /\ UNCHANGED csrf_token
                    [] form = "input_without_value" -> Abort /\ UNCHANGED csrf_token
                    [] OTHER -> /\ csrf_token' = "csrf"
                                /\ pc' = "login_post"
                                /\ UNCHANGED exit_code
    /\ UNCHANGED <<environ, env_lines, username, password, api_token,
                   login_url, activities, stats, written, files, metadata,
                   ping_status, fetchVars, apiVars>>

\* fetch_activities_csv, lines 114-128.
LoginPost ==
    /\ pc = "login_post"
    /\ endpoints' = Append(endpoints, "login_post")
    /\ \E url \in LandingUrls :
          /\ login_url' = url
          /\ IF LoginFailed(url)
             THEN Exit1
             ELSE pc' = "csv_get" /\ UNCHANGED exit_code
    /\ UNCHANGED <<environ, env_lines, username, password, api_token,
                   csrf_input, csrf_token, activities, stats, written, files,
                   metadata, ping_status, fetchVars, apiVars>>

\* Records already counted or collected in this run.
TotalFetched == SumOf(stats) + Len(all_items)

\* fetch_activities_csv, lines 132-141.
CsvGet ==
    /\ pc = "csv_get"
    /\ endpoints' = Append(endpoints, "csv")
    /\ \E status \in SessionStatuses, doc \in CsvDocs :
          IF RaisesForStatus(status)
          THEN Abort /\ UNCHANGED activities
          ELSE /\ activities' = ParseCsv(doc)
               /\ pc' = "save_activities"
               /\ UNCHANGED exit_code
    /\ UNCHANGED <<environ, env_lines, username, password, api_token,
                   csrf_input, csrf_token, login_url, stats, written, files,
                   metadata, ping_status, fetchVars, apiVars>>

\* A slip of copy and paste: every count goes under the key "hrv".
StatsAfter_same_key(st, d, items) == DictSet(st, "hrv", Len(items))
\* main, lines 273, 295, 302, 309: stats[<dataset>] = len(<result>).
StatsAfter(st, d, items) == DictSet(st, d, Len(items))

\* A slip: only the first record is dumped.
SaveJson_first_only(fs, data, filename) ==
    DictSet(fs, filename, IF data = <<>> THEN <<>> ELSE <<Head(data)>>)
\* save_json (lines 206-215): the file holds the data.
SaveJson(fs, data, filename) == DictSet(fs, filename, data)

\* main, lines 273-276.
SaveActivities ==
    /\ pc = "save_activities"
    /\ stats' = StatsAfter(stats, "activities", activities)
    /\ files' = SaveJson(SaveJson(files, activities, "activities.json"),
                         activities, "activities.csv")
    /\ written' = written \o <<"activities.json", "activities.csv">>
    /\ pc' = "test_api"
    /\ UNCHANGED <<exit_code, environ, env_lines, username, password,
                   api_token, csrf_input, csrf_token, login_url, activities,
                   endpoints, metadata, ping_status, fetchVars, apiVars>>

\* ------------------------------------------------------------------------
\* Health metrics via API (lines 147-200)
\* ------------------------------------------------------------------------
\* fetch_paginated, lines 184-189.
Items(data) ==
    CASE data.type = "dict" ->
             IF data.has_data THEN data.data
             ELSE IF data.has_hydra THEN data.hydra ELSE <<>>
      [] data.type = "list" -> data.list
      [] OTHER -> <<>>

\* The bodies the service can send, holding at most n records.
Bodies(n) ==
    LET pages == SeqsUpTo(Records, n)
        all == {ListBody(p) : p \in pages}
               \cup {MkBody("dict", <<>>, TRUE, p, FALSE, <<>>) : p \in pages}
               \cup {MkBody("dict", <<>>, FALSE, <<>>, TRUE, p) : p \in pages}
               \cup {MkBody("dict", <<>>, TRUE, <<>>, TRUE, <<"r1">>),
                     MkBody("dict", <<>>, TRUE, <<"r1">>, TRUE, <<>>),
                     MkBody("dict", <<>>, FALSE, <<>>, FALSE, <<>>),
                     MkBody("scalar", <<>>, FALSE, <<>>, FALSE, <<>>),
                     NoBody}
    IN  {b \in all : Len(Items(b)) <= n}

ApiStatuses == {200, 401, 404, 429, 500}
\* What requests.get(...) can end in: a response with a status, a Timeout,
\* or another exception of the transport.
Responses(n) ==
    [kind : {"http"}, status : {200}, body : Bodies(n)]
    \cup [kind : {"http"}, status : ApiStatuses \ {200}, body : {NoBody}]
    \cup [kind : {"timeout", "connerr"}, status : {0}, body : {NoBody}]

\* A slip: the 429 branch is missing, only a timeout is retried.
Retried_timeout_only(resp) == resp.kind = "timeout"
\* api_get, lines 155-158 and 163-165: the attempt is used up and the loop
\* goes on after a sleep.
Retried(resp) == resp.kind = "timeout" \/ (resp.kind = "http" /\ resp.status = 429)
SleepOf(resp) == IF resp.kind = "timeout" THEN TIMEOUT_WAIT ELSE RETRY_WAIT
\* A slip: every HTTPError is handled like the 404 (no `raise` on line 169).
Raised_no_reraise(resp) ==
    \/ resp.kind = "connerr"
    \/ /\ resp.kind = "http"
       /\ resp.status # 429
       /\ ~RaisesForStatus(resp.status)
       /\ resp.body.type = "invalid"
\* api_get, lines 160-161 and 166-169: the exception leaves api_get.
Raised(resp) ==
    \/ resp.kind = "connerr"
    \/ /\ resp.kind = "http"
       /\ resp.status # 429
       /\ IF RaisesForStatus(resp.status)
          THEN resp.status # 404
          ELSE resp.body.type = "invalid"
\* A slip: the 404 branch gives back the response instead of [].
Returned_body(resp) == resp.body
\* api_get, lines 161 and 168: the value returned for a response that is
\* neither retried nor raised.
Returned(resp) == IF RaisesForStatus(resp.status) THEN EmptyList ELSE resp.body
\* A slip: one attempt too many (range(MAX_RETRIES + 1)).
LastAttempt_one_more(n) == n + 1 >= MAX_RETRIES + 1
\* range(MAX_RETRIES) is used up after this attempt.
LastAttempt(n) == n + 1 >= MAX_RETRIES

\* api_get is not running: its locals are gone.
ApiIdle ==
    /\ api_pc' = "idle"
    /\ attempt' = 0
    /\ api_ret' = EmptyList
    /\ calllog' = <<>>
    /\ sleeps' = <<>>

\* The call api_get(url, token, params): a fresh loop.
ApiCall ==
    /\ api_pc' = "loop"
    /\ attempt' = 0
    /\ api_ret' = EmptyList
    /\ calllog' = <<>>
    /\ sleeps' = <<>>

\* A slip: the loop that runs out of attempts raises.
Exhausted_raises == "raised"
\* api_get, line 171: after the last attempt the loop ends and [] is returned.
Exhausted == "returned"

ApiEndpoints == {"ping", "hrv", "sleep", "resting_hr"}
FetchDatasets == {"hrv", "sleep", "resting_hr"}

\* api_get, lines 151-171: one pass of the loop, i.e. one HTTP request.
ApiGetAttempt ==
    /\ pc \in ApiEndpoints
    /\ api_pc = "loop"
    /\ endpoints' = IF endpoints # <<>> /\ endpoints[Len(endpoints)] = pc
                    THEN endpoints ELSE Append(endpoints, pc)
    /\ \E resp \in Responses(MaxRecords - TotalFetched) :
          /\ calllog' = Append(calllog, [url |-> pc,
                                         page |-> IF pc = "ping" THEN 0 ELSE page,
                                         kind |-> resp.kind,
                                         status |-> resp.status])
          /\ IF Retried(resp)
             THEN /\ sleeps' = Append(sleeps, SleepOf(resp))
                  /\ attempt' = attempt + 1
                  /\ api_pc' = IF LastAttempt(attempt) THEN Exhausted ELSE "loop"
                  /\ api_ret' = EmptyList
                  /\ UNCHANGED served
             ELSE IF Raised(resp)
             THEN /\ api_pc' = "raised"
                  /\ UNCHANGED <<attempt, api_ret, sleeps, served>>
             ELSE /\ api_pc' = "returned"
                  /\ api_ret' = Returned(resp)
                  /\ served' = IF pc \in FetchDatasets /\ resp.status = 200
                               THEN Append(served, [page |-> page,
                                                    items |-> Items(resp.body)])
                               ELSE served
                  /\ UNCHANGED <<attempt, sleeps>>
    /\ UNCHANGED <<pc, exit_code, environ, env_lines, username, password,
                   api_token, csrf_input, csrf_token, login_url, activities,
                   stats, written, files, metadata, ping_status, fetch_pc,
                   page, all_items, pauses>>

\* main, lines 281-285: the connectivity test is made when a token is there.
TestApi ==
    /\ pc = "test_api"
    /\ IF Truthy(api_token)
       THEN pc' = "ping" /\ ApiCall
       ELSE pc' = "select" /\ UNCHANGED apiVars
    /\ UNCHANGED <<exit_code, environ, env_lines, username, password,
                   api_token, csrf_input, csrf_token, login_url, activities,
                   stats, endpoints, written, files, metadata, ping_status,
                   fetchVars>>

\* A slip: a ping that brings back nothing counts as failed too.
PingFailed_unless_answered(state) == state = "raised" \/ api_ret = EmptyList
\* main, lines 284-289: `except Exception` discards the token.
PingFailed(state) == state = "raised"

PingResult ==
    /\ pc = "ping"
    /\ api_pc \in {"returned", "raised"}
    /\ IF PingFailed(api_pc)
       THEN ping_status' = "failed" /\ api_token' = None
       ELSE ping_status' = "ok" /\ UNCHANGED api_token
    /\ ApiIdle
    /\ pc' = "select"
    /\ UNCHANGED <<exit_code, environ, env_lines, username, password,
                   csrf_input, csrf_token, login_url, activities, stats,
                   endpoints, written, files, metadata, fetchVars>>

\* The call fetch_paginated(endpoint_url, token, label), lines 176-182.
FetchStart ==
    /\ fetch_pc' = "loop"
    /\ page' = 1
    /\ all_items' = <<>>
    /\ pauses' = 0
    /\ served' = <<>>
    /\ ApiCall

\* A slip: the test of line 291 does not see that the token was discarded.
HealthMetricsWanted_always(token) == TRUE
\* main, line 291: `if api_token`.
HealthMetricsWanted(token) == Truthy(token)

\* main, line 291 (and 312-314).
Select ==
    /\ pc = "select"
    /\ IF HealthMetricsWanted(api_token)
       THEN pc' = "hrv" /\ FetchStart
       ELSE pc' = "metadata" /\ UNCHANGED <<fetchVars, apiVars>>
    /\ UNCHANGED <<exit_code, environ, env_lines, username, password,
                   api_token, csrf_input, csrf_token, login_url, activities,
                   stats, endpoints, written, files, metadata, ping_status>>

\* fetch_paginated, line 191: `if not items`.
LastPage(items) == items = <<>>
\* A slip: the new page is put in front of the collected records.
Extend_prepend(all, items) == items \o all
\* fetch_paginated, line 196.
Extend(all, items) == all \o items
\* fetch_paginated, line 197.
NextPage(p) == p + 1

\* A slip: the pause is taken before the test of line 191.
Paused_before_break(n, items) == n + 1
\* fetch_paginated, lines 191-198: the RATE_LIMIT_DELAY pauses taken so far,
\* after a page of these items; the break of line 192 skips the sleep.
Paused(n, items) == IF LastPage(items) THEN n ELSE n + 1

\* fetch_paginated, lines 184-198: what the loop does with the value api_get
\* returned; a non-empty page is followed by the request of the next one.
FetchStep ==
    /\ pc \in FetchDatasets
    /\ fetch_pc = "loop"
    /\ api_pc = "returned"
    /\ LET items == Items(api_ret)
       IN  IF LastPage(items)
           THEN /\ fetch_pc' = "returned"
                /\ pauses' = Paused(pauses, items)
                /\ ApiIdle
                /\ UNCHANGED <<page, all_items, served>>
           ELSE /\ all_items' = Extend(all_items, items)
                /\ page' = NextPage(page)
                /\ pauses' = Paused(pauses, items)
                /\ ApiCall
                /\ UNCHANGED <<fetch_pc, served>>
    /\ UNCHANGED mainVars

\* A slip: fetch_paginated catches the exception and returns what it has.
Propagate_swallowed ==
    /\ pc \in FetchDatasets
    /\ api_pc = "raised"
    /\ fetch_pc' = "returned"
    /\ UNCHANGED <<mainVars, page, all_items, pauses, served, apiVars>>
\* An exception raised in api_get is caught neither by fetch_paginated nor by
\* main (lines 294, 301, 308).
Propagate ==
    /\ pc \in FetchDatasets
    /\ api_pc = "raised"
    /\ Abort
    /\ UNCHANGED <<environ, env_lines, username, password, api_token,
                   csrf_input, csrf_token, login_url, activities, stats,
                   endpoints, written, files, metadata, ping_status,
                   fetchVars, apiVars>>

\* A slip: the blocks of sleep and of resting heart rate are swapped.
NextDataset_swapped(d) == CASE d = "hrv" -> "resting_hr"
                            [] d = "resting_hr" -> "sleep"
                            [] OTHER -> None
\* The dataset fetched after d, or None after the last one.
NextDataset(d) == CASE d = "hrv" -> "sleep"
                    [] d = "sleep" -> "resting_hr"
                    [] OTHER -> None

\* main, lines 295-297, 302-304, 309-311: the count, the file, then the
\* next dataset.
DatasetDone ==
    /\ pc \in FetchDatasets
    /\ fetch_pc = "returned"
    /\ stats' = StatsAfter(stats, pc, all_items)
    /\ files' = SaveJson(files, all_items, JsonFile(pc))
    /\ written' = Append(written, JsonFile(pc))
    /\ IF NextDataset(pc) = None
       THEN /\ pc' = "metadata"
            /\ fetch_pc' = "idle" /\ page' = 0 /\ all_items' = <<>> /\ pauses' = 0
            /\ served' = <<>>
            /\ UNCHANGED apiVars
       ELSE /\ pc' = NextDataset(pc)
            /\ FetchStart
    /\ UNCHANGED <<exit_code, environ, env_lines, username, password,
                   api_token, csrf_input, csrf_token, login_url, activities,
                   endpoints, metadata, ping_status>>

\* save_metadata (lines 238-251) and the end of main (lines 320-330).
SaveMetadata ==
    /\ pc = "metadata"
    /\ metadata' = stats
    /\ written' = Append(written, "metadata.json")
    /\ pc' = "done"
    /\ exit_code' = 0
    /\ UNCHANGED <<environ, env_lines, username, password, api_token,
                   csrf_input, csrf_token, login_url, activities, stats,
                   endpoints, files, ping_status, fetchVars, apiVars>>

Next ==
    \/ LoadEnv
    \/ GetCredentials
    \/ LoginGet
    \/ LoginPost
    \/ CsvGet
    \/ SaveActivities
    \/ TestApi
    \/ ApiGetAttempt
    \/ PingResult
    \/ Select
    \/ FetchStep
    \/ Propagate
    \/ DatasetDone
    \/ SaveMetadata

Spec == Init /\ [][Next]_vars

\* ------------------------------------------------------------------------
\* Properties
\* ------------------------------------------------------------------------
InFetch == pc \in FetchDatasets
\* The records of the successful responses r[1..n], in order.
RECURSIVE ConcatItems(_, _)
ConcatItems(r, n) == IF n = 0 THEN <<>> ELSE ConcatItems(r, n - 1) \o r[n].items
\* The last request of the running api_get call.
LastReq == calllog[Len(calllog)]
Is429(e) == e.kind = "http" /\ e.status = 429
IsTimeout(e) == e.kind = "timeout"

\* C1: when the successful responses of one fetch_paginated call are n
\* non-empty pages followed by an empty page, the call returns the
\* concatenation of the n pages in page order; the successful requests are
\* those of pages 1..n+1 and no request follows the first empty page.
C1_ConcatenatesPages ==
    InFetch =>
        /\ \A i \in 1..(Len(served) - 1) : served[i].items # <<>>
        /\ \A i \in 1..Len(served) : served[i].page = i
        /\ (fetch_pc = "returned" /\ served # <<>> /\ served[Len(served)].items = <<>>)
              => /\ all_items = ConcatItems(served, Len(served) - 1)
                 /\ api_pc = "idle"
                 /\ page = Len(served)

C1_Witness ==
    /\ InFetch /\ fetch_pc = "returned"
    /\ Len(served) = 3
    /\ served[1].items = <<"r2">> /\ served[2].items = <<"r1">>
    /\ served[3].items = <<>>
    /\ all_items = <<"r2", "r1">>

\* C2: a 429 answered to a page request is followed, after one RETRY_WAIT
\* sleep, by a request of the same page; when that request succeeds api_get
\* returns the records of the successful response, and the records collected
\* by fetch_paginated are those of the successful responses alone, whatever
\* 429s came in between.
C2_RetryAfter429 ==
    InFetch =>
        /\ \A i \in 1..Len(calllog) :
              /\ calllog[i].url = pc /\ calllog[i].page = page
              /\ Is429(calllog[i]) => (i <= Len(sleeps) /\ sleeps[i] = RETRY_WAIT)
        /\ \A i \in 1..(Len(calllog) - 1) :
              Is429(calllog[i]) \/ IsTimeout(calllog[i])
        /\ (api_pc = "returned" /\ calllog # <<>> /\ LastReq.status = 200)
              => /\ served # <<>>
                 /\ served[Len(served)].page = page
                 /\ Items(api_ret) = served[Len(served)].items
                 /\ Len(sleeps) = Len(calllog) - 1
                 /\ ConcatItems(served, Len(served) - 1) = all_items
        /\ (api_pc # "returned" /\ fetch_pc \in {"loop", "returned"})
              => \E n \in {Len(served) - 1, Len(served)} :
                    n >= 0 /\ ConcatItems(served, n) = all_items

C2_Witness ==
    /\ InFetch /\ api_pc = "returned"
    /\ Len(calllog) = 2
    /\ Is429(calllog[1]) /\ calllog[2].status = 200
    /\ calllog[1].page = 2 /\ calllog[2].page = 2
    /\ sleeps = <<RETRY_WAIT>>
    /\ Items(api_ret) = <<"r2">>
    /\ all_items = <<"r1">>

\* A 404 is the last request of its call, which returned [] without a sleep.
C3_NotFoundState ==
    \A i \in 1..Len(calllog) :
        (calllog[i].kind = "http" /\ calllog[i].status = 404)
           => /\ i = Len(calllog)
              /\ api_pc = "returned"
              /\ api_ret = EmptyList
              /\ Len(sleeps) = i - 1
\* What fetch_paginated does with the [] of a 404 on page k.
C3_NotFoundStep ==
    (InFetch /\ api_pc = "returned" /\ calllog # <<>> /\ LastReq.status = 404)
       => /\ fetch_pc' = "returned"
          /\ all_items' = all_items
          /\ all_items = ConcatItems(served, Len(served))
          /\ Len(served) = page - 1
          /\ pc' = pc
          /\ api_pc' = "idle"
\* C3: a 404 makes api_get return [] without raising and without another
\* request; in fetch_paginated a 404 on page k ends the pagination with the
\* records of pages 1..k-1.
C3_NotFound == []C3_NotFoundState /\ [][C3_NotFoundStep]_vars

C3_Witness ==
    /\ InFetch /\ api_pc = "returned"
    /\ calllog # <<>> /\ LastReq.status = 404 /\ LastReq.page = 2
    /\ all_items = <<"r1">>

\* The requests of one api_get call and how a used-up call ends.
C4_BoundedState ==
    /\ Len(calllog) <= MAX_RETRIES
    /\ api_pc = "loop"
          => /\ attempt = Len(calllog) /\ attempt < MAX_RETRIES
             /\ ENABLED ApiGetAttempt
    /\ (/\ Len(calllog) = MAX_RETRIES
        /\ \A i \in 1..Len(calllog) : Is429(calllog[i]) \/ IsTimeout(calllog[i]))
          => (api_pc = "returned" /\ api_ret = EmptyList)
\* A step of a call that stays in the loop has used up one attempt.
C4_Progress == (api_pc = "loop" /\ api_pc' = "loop") => attempt' = attempt + 1
\* C4: one api_get call makes at most MAX_RETRIES requests whatever mix of
\* 429s and timeouts it meets; when every attempt ends in a 429 or a timeout
\* it returns [] and does not raise; a running call always has an attempt
\* left and so comes to an end.
C4_BoundedRetries == []C4_BoundedState /\ [][C4_Progress]_vars

C4_Witness ==
    /\ api_pc = "returned" /\ api_ret = EmptyList
    /\ Len(calllog) = MAX_RETRIES
    /\ Is429(calllog[1]) /\ IsTimeout(calllog[2]) /\ Is429(calllog[3])
    /\ sleeps = <<RETRY_WAIT, TIMEOUT_WAIT, RETRY_WAIT>>

InSeq(x, seq) == \E i \in 1..Len(seq) : seq[i] = x
Terminal == pc \in {"done", "exit", "aborted"}
\* The datasets fetched after d.
Later(d) == CASE d = "hrv" -> {"sleep", "resting_hr"}
              [] d = "sleep" -> {"resting_hr"}
              [] OTHER -> {}
\* An HTTP error status other than 429 and 404.
IsHttpError(e) == e.kind = "http" /\ e.status >= 400 /\ e.status \notin {404, 429}

\* What holds once a dataset page was answered with an HTTP error.
C5_ErrorState ==
    /\ \A i \in 1..Len(calllog) :
          (IsHttpError(calllog[i]) /\ calllog[i].url \in FetchDatasets)
             => /\ i = Len(calllog)
                /\ api_pc = "raised"
                /\ pc \in {calllog[i].url, "aborted"}
                /\ ~InSeq("metadata.json", written)
                /\ \A d \in {calllog[i].url} \cup Later(calllog[i].url) :
                      ~InSeq(JsonFile(d), written)
                /\ \A d \in Later(calllog[i].url) : ~InSeq(d, endpoints)
    /\ pc = "aborted" => exit_code = 1
\* The exception goes up to the top; the process is over after that.
C5_ErrorStep ==
    /\ (InFetch /\ api_pc = "raised")
          => /\ pc' = "aborted"
             /\ UNCHANGED <<written, files, metadata, stats, endpoints, calllog>>
    /\ pc # "aborted"
\* C5: an HTTP error other than 429 and 404 on a dataset page is not retried:
\* it leaves api_get and fetch_paginated and ends the run; the file of that
\* dataset, the files of the later datasets and metadata.json are not
\* written and no later dataset is requested.
C5_ErrorAborts == []C5_ErrorState /\ [][C5_ErrorStep]_vars

C5_Witness ==
    /\ pc = "aborted" /\ exit_code = 1
    /\ calllog # <<>> /\ LastReq.url = "sleep" /\ LastReq.status = 500
    /\ InSeq("hrv.json", written)

\* The outcome of the login page and of the login POST.
C6_LoginState ==
    LET landed == login_url # <<>>
        onLogin == \E i \in 1..Len(login_url) : login_url[i] = "/login"
    IN  /\ (landed /\ onLogin)
              => /\ pc = "exit" /\ exit_code = 1
                 /\ ~InSeq("csv", endpoints)
                 /\ written = <<>> /\ files = EmptyDict
        /\ (landed /\ ~onLogin) => (pc = "csv_get" \/ InSeq("csv", endpoints))
        /\ csrf_input = "not_found" => pc = "exit"
        /\ csrf_input \in {"not_found", "input_without_value"}
              => /\ Terminal /\ exit_code = 1
                 /\ ~InSeq("login_post", endpoints)
                 /\ written = <<>> /\ files = EmptyDict
\* Nothing follows sys.exit(1); the CSV request follows a successful login.
C6_LoginStep ==
    /\ pc # "exit"
    /\ pc = "csv_get" => endpoints' = Append(endpoints, "csv")
\* C6: a login POST that lands on a URL containing "/login" ends the process
\* with code 1, with no CSV export request and no file written; a landing
\* URL without "/login" is followed by the CSV export request; a login page
\* without CSRF token ends the process with code 1 before the POST.
C6_LoginOutcome == []C6_LoginState /\ [][C6_LoginStep]_vars

C6_Witness ==
    /\ pc = "exit" /\ exit_code = 1
    /\ login_url = <<"https://runalyze.com", "/login", "?error=1">>
    /\ endpoints = <<"login_get", "login_post">>

\* C7: when RUNALYZE_USERNAME or RUNALYZE_PASSWORD is unset or empty once the
\* environment and the .env file are read, the process exits with code 1
\* before any request is made and before any file is written.
C7_MissingCredentials ==
    LET missing == \/ ~Truthy(environ["RUNALYZE_USERNAME"])
                   \/ ~Truthy(environ["RUNALYZE_PASSWORD"])
    IN  /\ pc \in {"load_env", "get_credentials"}
              => (endpoints = <<>> /\ written = <<>> /\ exit_code = -1)
        /\ (pc \notin {"load_env", "get_credentials"} /\ missing)
              => /\ pc = "exit" /\ exit_code = 1
                 /\ endpoints = <<>>
                 /\ written = <<>> /\ files = EmptyDict

C7_Witness ==
    /\ pc = "exit" /\ exit_code = 1
    /\ environ["RUNALYZE_USERNAME"] = "secret"
    /\ environ["RUNALYZE_PASSWORD"] = ""
    /\ environ["RUNALYZE_TOKEN"] = "secret"
    /\ endpoints = <<>>

\* C8 as stated: when the connectivity test fails, the process exits with
\* code 1.
C8_PingFailureExits1 == (ping_status = "failed" /\ Terminal) => exit_code = 1

\* What holds once the connectivity test has failed.
C8_PingFailedState ==
    ping_status = "failed"
       => /\ api_token = None
          /\ pc \in {"select", "metadata", "done"}
          /\ exit_code = IF pc = "done" THEN 0 ELSE -1
          /\ \A d \in FetchDatasets : ~InSeq(d, endpoints)
          /\ pc = "done" => InSeq("metadata.json", written)
\* A ping that raises is caught in main.
C8_PingFailedStep ==
    (pc = "ping" /\ api_pc = "raised")
       => (ping_status' = "failed" /\ pc' = "select" /\ exit_code' = exit_code)
\* C8, amended: when the connectivity test fails (the ping raises) the
\* process does not exit: the token is discarded, no health-metric dataset is
\* requested, metadata.json is written and the run ends with code 0.
C8_PingFailureSkips == []C8_PingFailedState /\ [][C8_PingFailedStep]_vars

C8_Witness ==
    /\ ping_status = "failed" /\ pc = "done" /\ exit_code = 0
    /\ written = <<"activities.json", "activities.csv", "metadata.json">>

\* The request that fetches dataset d.
EndpointOf(d) == IF d = "activities" THEN "csv" ELSE d

\* C9: whenever metadata.json is written, the keys of its counts are the
\* datasets fetched in the run (activities always; hrv, sleep and resting_hr
\* exactly when a token is present and the connectivity test did not fail)
\* and each count is the number of records written to the dataset's file.
C9_MetadataCounts ==
    InSeq("metadata.json", written)
       => /\ DOMAIN metadata = {d \in Datasets : InSeq(EndpointOf(d), endpoints)}
          /\ DOMAIN metadata =
                IF Truthy(environ["RUNALYZE_TOKEN"]) /\ ping_status # "failed"
                THEN Datasets ELSE {"activities"}
          /\ \A d \in DOMAIN metadata :
                /\ JsonFile(d) \in DOMAIN files
                /\ InSeq(JsonFile(d), written)
                /\ metadata[d] = Len(files[JsonFile(d)])

C9_Witness ==
    /\ InSeq("metadata.json", written)
    /\ DOMAIN metadata = Datasets
    /\ metadata["activities"] = 1 /\ metadata["hrv"] = 0
    /\ metadata["sleep"] = 2 /\ metadata["resting_hr"] = 0

HasUserPass == Truthy(environ["RUNALYZE_USERNAME"]) /\ Truthy(environ["RUNALYZE_PASSWORD"])
HasToken == Truthy(environ["RUNALYZE_TOKEN"])
CredentialsRead == pc \notin {"load_env", "get_credentials"}

\* C10 as stated: each scheme runs when its own credentials are present,
\* whatever the other's: with the token alone the token scheme is used, with
\* username and password alone the session scheme is used.
C10_SchemesIndependent ==
    Terminal
       => /\ (HasToken /\ ~HasUserPass) => InSeq("ping", endpoints)
          /\ (HasUserPass /\ ~HasToken) => InSeq("login_get", endpoints)

\* C10, amended: the session scheme is mandatory and the token scheme comes
\* on top of it. Without username and password the process exits with code 1
\* before any request, token or not; with them the session scheme runs, and
\* the token scheme is used after the activities are saved exactly when a
\* token is present too. A missing token does not stop the session scheme.
C10_SessionThenToken ==
    /\ (CredentialsRead /\ ~HasUserPass)
          => (pc = "exit" /\ exit_code = 1 /\ endpoints = <<>>)
    /\ (CredentialsRead /\ HasUserPass) => InSeq("login_get", endpoints) \/ pc = "login_get"
    /\ \A e \in ApiEndpoints :
          InSeq(e, endpoints)
             => (HasToken /\ HasUserPass /\ InSeq("activities.json", written))
    /\ pc \in {"select", "hrv", "sleep", "resting_hr", "metadata", "done"}
          => (InSeq("ping", endpoints) <=> HasToken)
    /\ (pc = "done" /\ ~HasToken)
          => (DOMAIN metadata = {"activities"} /\ InSeq("csv", endpoints))

C10_Witness ==
    /\ pc = "exit" /\ exit_code = 1
    /\ HasToken /\ ~HasUserPass
    /\ endpoints = <<>>

\* The detail the service holds for an activity: {"distance": 10} for the
\* activity with identifier "42".
DetailOf(r) == IF Fields(r).id = "42" THEN [distance |-> 10] ELSE [distance |-> 3]
\* The shallow merge {**summary, **detail}: the detail wins on a shared key.
ShallowMerge(summary, detail) ==
    [k \in DOMAIN summary \cup DOMAIN detail |->
        IF k \in DOMAIN detail THEN detail[k] ELSE summary[k]]
\* The i-th activity record the run has produced.
ProducedActivity(i) == Fields(files["activities.json"][i])
KnownEndpoints == {"login_get", "login_post", "csv", "ping", "hrv", "sleep", "resting_hr"}

\* C11 as stated: the activity record the run produces is the shallow merge
\* of the detail over the summary: for the summary with identifier "42" and
\* the detail {"distance": 10} it holds the summary's fields and distance: 10.
C11_DetailMerged ==
    InSeq("activities.json", written)
       => \A i \in 1..Len(activities) :
             ProducedActivity(i)
                = ShallowMerge(Fields(activities[i]), DetailOf(activities[i]))

\* C11, amended: the run makes no detail request and merges nothing: every
\* activity record written to activities.json and activities.csv is the row
\* parsed from the CSV export, unchanged and in order, so the record with
\* identifier "42" has the summary's fields and no distance.
C11_RowsUnenriched ==
    /\ \A i \in 1..Len(endpoints) : endpoints[i] \in KnownEndpoints
    /\ InSeq("activities.json", written)
          => /\ files["activities.json"] = activities
             /\ files["activities.csv"] = activities
             /\ stats["activities"] = Len(activities)
             /\ \A i \in 1..Len(activities) :
                   /\ ProducedActivity(i) = Fields(activities[i])
                   /\ "distance" \notin DOMAIN ProducedActivity(i)

C11_Witness ==
    /\ InSeq("activities.json", written)
    /\ activities = <<"r2", "r1">>
    /\ ProducedActivity(2).id = "42"
    /\ pc = "done"

\* The order of the requests and of the files of a run with all datasets.
RequestOrder == <<"login_get", "login_post", "csv", "ping", "hrv", "sleep", "resting_hr">>
FileOrder == <<"activities.json", "activities.csv", "hrv.json", "sleep.json",
               "resting_hr.json">>
IsPrefix(a, b) == Len(a) <= Len(b) /\ a = SubSeq(b, 1, Len(a))
\* The dataset fetched before d.
Previous(d) == CASE d = "hrv" -> "activities"
                 [] d = "sleep" -> "hrv"
                 [] d = "resting_hr" -> "sleep"
\* The endpoints are met in program order, each in one stretch; the files
\* are written in program order, metadata.json last.
C12_OrderState ==
    /\ IsPrefix(endpoints, RequestOrder)
    /\ \/ IsPrefix(written, FileOrder \o <<"metadata.json">>)
       \/ written = <<"activities.json", "activities.csv", "metadata.json">>
    /\ \A d \in FetchDatasets :
          InSeq(d, endpoints) => InSeq(JsonFile(Previous(d)), written)
    /\ InSeq("metadata.json", written)
          => /\ written[Len(written)] = "metadata.json"
             /\ \A d \in Datasets :
                   InSeq(EndpointOf(d), endpoints) => InSeq(JsonFile(d), written)
\* A request of a dataset comes after the file of the previous dataset and
\* before its own file; a written file is not written again.
C12_OrderStep ==
    /\ (calllog' # calllog /\ calllog' # <<>> /\ pc' \in FetchDatasets)
          => /\ calllog'[Len(calllog')].url = pc'
             /\ InSeq(JsonFile(Previous(pc')), written')
             /\ \A d \in {pc'} \cup Later(pc') : ~InSeq(JsonFile(d), written')
    /\ IsPrefix(written, written')
    /\ IsPrefix(endpoints, endpoints')
\* C12: the datasets are processed in the order activities, hrv, sleep,
\* resting_hr and never interleaved: no request of a dataset is made before
\* the file of the previous dataset is written, the requests of a dataset
\* form one stretch, and metadata.json is written after every dataset file
\* of the run.
C12_SequentialDatasets == []C12_OrderState /\ [][C12_OrderStep]_vars

C12_Witness ==
    /\ pc = "done"
    /\ endpoints = RequestOrder
    /\ written = FileOrder \o <<"metadata.json">>
    /\ metadata["hrv"] = 1 /\ metadata["sleep"] = 1 /\ metadata["resting_hr"] = 1

\* The number of non-empty pages among the successful responses r[1..n].
RECURSIVE NonEmptyPages(_, _)
NonEmptyPages(r, n) ==
    IF n = 0 THEN 0
    ELSE NonEmptyPages(r, n - 1) + (IF r[n].items # <<>> THEN 1 ELSE 0)
\* A non-empty page was returned to fetch_paginated and is not yet handled.
PageInHand == fetch_pc = "loop" /\ api_pc = "returned" /\ Items(api_ret) # <<>>
\* The pauses taken are the non-empty pages handled; page p is requested
\* after p - 1 pauses.
C13_PauseState ==
    InFetch =>
        /\ pauses = NonEmptyPages(served, Len(served)) - (IF PageInHand THEN 1 ELSE 0)
        /\ pauses = page - 1
        /\ \A i \in 1..Len(calllog) : calllog[i].page = pauses + 1
        /\ fetch_pc = "returned" => pauses = NonEmptyPages(served, Len(served))
\* A non-empty page is followed by one pause, and the next page is not yet
\* requested; the page that ends the call is followed by none.
C13_PauseStep ==
    /\ (InFetch /\ PageInHand)
          => /\ pauses' = pauses + 1
             /\ page' = page + 1
             /\ calllog' = <<>> /\ api_pc' = "loop"
    /\ (InFetch /\ fetch_pc = "loop" /\ fetch_pc' = "returned")
          => /\ Items(api_ret) = <<>>
             /\ pauses' = pauses
    /\ (InFetch /\ pc' = pc /\ ~PageInHand) => pauses' = pauses
\* C13: in one fetch_paginated call one RATE_LIMIT_DELAY pause follows every
\* non-empty page before the next page is requested and no pause follows the
\* page that ends the call: n non-empty pages give n pauses.
C13_OnePausePerPage == []C13_PauseState /\ [][C13_PauseStep]_vars

C13_Witness ==
    /\ InFetch /\ fetch_pc = "returned"
    /\ Len(served) = 3 /\ served[3].items = <<>>
    /\ NonEmptyPages(served, Len(served)) = 2
    /\ pauses = 2

\* The dataset whose fetch made the last request.
LastDataset ==
    LET e == endpoints[Len(endpoints)]
    IN  IF e \in FetchDatasets THEN e ELSE "activities"
\* The datasets fetched before d.
Earlier(d) == {x \in Datasets : d \in Later(x)} \cup
              (IF d = "activities" THEN {} ELSE {"activities"})
\* The files of dataset d.
FilesOf(d) == IF d = "activities" THEN {"activities.json", "activities.csv"}
              ELSE {JsonFile(d)}
\* After an exception left main(): the files of the datasets before the
\* failing one are there in full, no other file is; metadata.json is
\* written in runs that came to the end only.
C14_AbortState ==
    /\ pc = "aborted"
          => /\ exit_code = 1
             /\ endpoints # <<>>
             /\ metadata = EmptyDict
             /\ DOMAIN files = UNION {FilesOf(d) : d \in Earlier(LastDataset)}
             /\ \A f \in DOMAIN files : InSeq(f, written)
             /\ \A i \in 1..Len(written) : written[i] \in DOMAIN files
             /\ DOMAIN stats = Earlier(LastDataset)
             /\ \A d \in DOMAIN stats :
                   \A f \in FilesOf(d) : Len(files[f]) = stats[d]
             /\ "activities" \in DOMAIN stats => files["activities.json"] = activities
    /\ InSeq("metadata.json", written)
          => /\ pc = "done" /\ exit_code = 0
             /\ api_pc = "idle"
             /\ \A d \in Datasets :
                   InSeq(EndpointOf(d), endpoints) => FilesOf(d) \subseteq DOMAIN files
\* The exception ends the run at once and writes nothing; a file is written
\* with all the records its fetch returned and is left alone afterwards.
C14_AbortStep ==
    /\ (InFetch /\ api_pc = "raised")
          => /\ pc' = "aborted" /\ exit_code' = 1
             /\ UNCHANGED <<written, files, metadata>>
    /\ pc' = "aborted" => UNCHANGED <<written, files, metadata>>
    /\ \A f \in DOMAIN files : f \in DOMAIN files' /\ files'[f] = files[f]
    /\ (InFetch /\ fetch_pc = "returned")
          => files'[JsonFile(pc)] = ConcatItems(served, Len(served))
\* C14: when an exception ends the run while dataset k is fetched, the files
\* of the datasets before k stay written with their full content, the files
\* of k and of the later datasets are not written and metadata.json is not
\* written; metadata.json is written only in runs where every dataset fetch
\* that was started returned.
C14_FatalErrorFiles == []C14_AbortState /\ [][C14_AbortStep]_vars

C14_Witness ==
    /\ pc = "aborted" /\ api_pc = "raised"
    /\ LastDataset = "sleep"
    /\ written = <<"activities.json", "activities.csv", "hrv.json">>
    /\ Len(files["hrv.json"]) = 2 /\ Len(files["activities.json"]) = 1

\* Every attempt of the running api_get call ended in a 429 or a timeout.
RetriesExhausted ==
    /\ Len(calllog) = MAX_RETRIES
    /\ \A i \in 1..Len(calllog) : Is429(calllog[i]) \/ IsTimeout(calllog[i])
\* Exhausted retries end api_get like an empty page does.
C15_ExhaustedState ==
    (InFetch /\ RetriesExhausted)
       => /\ api_pc = "returned" /\ api_ret = EmptyList
          /\ fetch_pc = "loop"
          /\ \A i \in 1..Len(calllog) : calllog[i].page = page
          /\ Len(served) = page - 1
          /\ all_items = ConcatItems(served, Len(served))
\* fetch_paginated ends with the pages before the failing one; the run goes
\* on with the file, the count and the next dataset.
C15_ExhaustedStep ==
    /\ (InFetch /\ RetriesExhausted)
          => /\ fetch_pc' = "returned"
             /\ all_items' = all_items
             /\ pc' = pc /\ exit_code' = exit_code
             /\ api_pc' = "idle" /\ calllog' = <<>>
    /\ (InFetch /\ fetch_pc = "returned")
          => /\ files' = DictSet(files, JsonFile(pc), all_items)
             /\ stats' = DictSet(stats, pc, Len(all_items))
             /\ pc' = (IF pc = "resting_hr" THEN "metadata" ELSE NextDataset(pc))
             /\ exit_code' = exit_code
    /\ pc = "metadata" => (metadata' = stats /\ pc' = "done" /\ exit_code' = 0)
\* C15: when all MAX_RETRIES attempts for page k of a dataset end in a 429
\* or a timeout, fetch_paginated stops without raising and returns the
\* records of pages 1..k-1; the run goes on with the next dataset and the
\* shortened count is written to the file and to the metadata like a
\* complete one.
C15_ExhaustedLooksComplete == []C15_ExhaustedState /\ [][C15_ExhaustedStep]_vars

C15_Witness ==
    /\ pc = "hrv" /\ RetriesExhausted
    /\ page = 2 /\ Len(all_items) = 1
    /\ api_pc = "returned"

\* The ping is over and api_get gave back a value.
PingReturned == pc = "ping" /\ api_pc = "returned"
\* The ping is over and api_get raised.
PingRaised == pc = "ping" /\ api_pc = "raised"
\* A ping answered 404, or with a 429 or a timeout on every attempt, ends
\* with [] returned; a failed test leaves no trace of the health datasets.
C16_PingState ==
    /\ (pc = "ping" /\ calllog # <<>> /\ (LastReq.status = 404 \/ RetriesExhausted))
          => (PingReturned /\ api_ret = EmptyList)
    /\ PingRaised
          => /\ LastReq.kind # "timeout"
             /\ LastReq.kind = "http" => LastReq.status \notin {404, 429}
    /\ ping_status = "failed"
          => /\ api_token = None
             /\ \A d \in FetchDatasets :
                   /\ ~InSeq(d, endpoints)
                   /\ JsonFile(d) \notin DOMAIN files
                   /\ d \notin DOMAIN stats
             /\ pc \in {"select", "metadata", "done"}
    /\ (ping_status = "ok" /\ pc \notin {"select", "aborted"})
          => (pc = "hrv" \/ InSeq("hrv", endpoints))
\* The test fails exactly when the ping raised.
C16_PingStep ==
    /\ PingReturned
          => /\ ping_status' = "ok"
             /\ api_token' = api_token /\ Truthy(api_token')
             /\ pc' = "select"
    /\ PingRaised
          => /\ ping_status' = "failed"
             /\ api_token' = None
             /\ pc' = "select" /\ exit_code' = exit_code
    /\ (pc = "select" /\ ping_status = "ok") => (pc' = "hrv" /\ api_pc' = "loop")
    /\ (pc = "select" /\ ping_status = "failed") => pc' = "metadata"
\* C16: the connectivity test fails only when the ping call raises: a ping
\* answered 404, or 429 or timeout on all attempts, makes api_get return [],
\* counts as a working connection and the health datasets are fetched; when
\* the ping raises, the token is discarded, no hrv, sleep or resting_hr
\* request is made and none of their files is written.
C16_PingFailsOnlyOnRaise == []C16_PingState /\ [][C16_PingStep]_vars

C16_Witness ==
    /\ PingReturned /\ api_ret = EmptyList
    /\ RetriesExhausted
    /\ IsTimeout(calllog[1]) /\ Is429(calllog[2]) /\ Is429(calllog[3])
    /\ Truthy(api_token)

\* The positions of the KEY=VALUE lines of key k in the .env file.
PairLines(k) == {i \in 1..Len(env_lines) :
                    env_lines[i].kind = "pair" /\ env_lines[i].key = k}
\* The first of them.
FirstPairLine(k) == CHOOSE i \in PairLines(k) : \A j \in PairLines(k) : i <= j
\* The value load_env reads on a line: the text after `=` without its quotes.
ValueOf(line) == IF line.raw = "\"secret\"" THEN "secret" ELSE line.raw
\* What load_env leaves in the environment for key k.
C17_Expected(k) ==
    IF environ[k] # None THEN environ[k]
    ELSE IF PairLines(k) = {} THEN None
    ELSE ValueOf(env_lines[FirstPairLine(k)])
C17_LoadEnvStep ==
    /\ pc = "load_env" => \A k \in Keys : environ'[k] = C17_Expected(k)
    /\ pc # "load_env" => environ' = environ
\* C17: load_env never overwrites a key that is already in the process
\* environment: after it the value of a key is the one the process
\* environment had if the key was there, else the value of the first
\* KEY=VALUE line of that key in the .env file; later lines of the same key
\* change nothing.
C17_FirstValueWins == [][C17_LoadEnvStep]_vars

C17_Witness ==
    /\ pc = "load_env"
    /\ environ["RUNALYZE_USERNAME"] = ""
    /\ environ["RUNALYZE_TOKEN"] = None
    /\ env_lines = <<[kind |-> "pair", key |-> "RUNALYZE_TOKEN", raw |-> "\"secret\""],
                     [kind |-> "pair", key |-> "RUNALYZE_TOKEN", raw |-> ""]>>

====
